---- MODULE Spec2Model ----
(***************************************************************************)
(* Hex_war (src/src/lib.rs): two teams of bouncing discs claim the cells   *)
(* of a flat-top hex board.  The program computes in f64; the model        *)
(* computes in fixed point:                                                *)
(*   lengths and positions   in 1/PX  of a pixel                           *)
(*   velocities and speeds   in 1/VS  of a pixel per second                *)
(*   unit vectors, cos, sin  in 1/ONE                                      *)
(*   the time-scale factor   in 1/MUL                                      *)
(*   timestamps              in milliseconds                               *)
(* Every quotient is rounded to the nearest representable value, as an f64 *)
(* operation rounds its exact result.  A threshold below the resolution    *)
(* (1e-6) is the comparison with 0 of the rounded quantity.                *)
(***************************************************************************)
EXTENDS Integers, Sequences, FiniteSets, TLC

\* ------------------------------------------------------------ resolution
PX  == 1000
VS  == 10
ONE == 1000
MUL == 100

\* ------------------------------------------------------------ arithmetic
Min(a, b) == IF a < b THEN a ELSE b
Max(a, b) == IF a > b THEN a ELSE b
Abs(a) == IF a < 0 THEN -a ELSE a

\* f64::clamp(lo, hi) for lo <= hi (it panics when lo > hi: see Resize).
Clamp(v, lo, hi) == IF v < lo THEN lo ELSE IF v > hi THEN hi ELSE v

\* a / b rounded to the nearest integer (b > 0), halves upwards.
RDiv(a, b) == (2 * a + b) \div (2 * b)

\* f64::round of a / b (b > 0): to the nearest integer, halves away from 0.
RoundAway(a, b) == IF a >= 0 THEN (2 * a + b) \div (2 * b)
                             ELSE -((2 * (-a) + b) \div (2 * b))

RECURSIVE SqrtSearch(_, _, _)
SqrtSearch(n, lo, hi) ==
    IF lo >= hi THEN lo
    ELSE LET mid == (lo + hi + 1) \div 2
         IN IF mid * mid <= n THEN SqrtSearch(n, mid, hi)
                              ELSE SqrtSearch(n, lo, mid - 1)

\* f64::sqrt, rounded to the nearest integer.
Sqrt(n) == LET s == SqrtSearch(n, 0, 46340)
           IN IF n - s * s > s THEN s + 1 ELSE s

\* sqrt(3) in 1/ONE.
SQRT3 == 1732

\* ------------------------------------------------------------ enums
TeamBlack == "TeamBlack"
TeamWhite == "TeamWhite"
Team == {TeamBlack, TeamWhite}
HexBlack == "Black"
HexWhite == "White"
HexColor == {HexBlack, HexWhite}

\* `match team { Team::Black => HexColor::Black, Team::White => HexColor::White }`
TargetColor(team) == IF team = TeamBlack THEN HexBlack ELSE HexWhite

\* ------------------------------------------------------------ Grid::new
\* `(short / 50.0).clamp(3.0, 14.0)`
GridRadius(w, h) == Clamp(RDiv(Min(w, h), 50), 3 * PX, 14 * PX)

HexH(r) == RDiv(SQRT3 * r, ONE)
StepX(r) == RDiv(3 * r, 2)

\* `while pos + half <= limit { count += 1; pos += step; }`
RECURSIVE CountFit(_, _, _, _)
CountFit(pos, half, step, limit) ==
    IF pos + half <= limit THEN 1 + CountFit(pos + step, half, step, limit)
                           ELSE 0

GridCols(w, r) == LET c == CountFit(r, r, StepX(r), w - PX)
                  IN IF c = 0 THEN 1 ELSE c

GridRows(h, r) ==
    LET hex_h == HexH(r)
        half == RDiv(hex_h, 2)
        rows_even == CountFit(half, half, hex_h, h - PX)
        rows_odd == CountFit(hex_h, half, hex_h, h - PX)
    IN Max(Min(rows_even, rows_odd), 1)

CellCx(r, col) == r + col * StepX(r)
CellCy(r, col, row) ==
    LET hex_h == HexH(r)
        offset_y == IF col % 2 = 0 THEN 0 ELSE RDiv(hex_h, 2)
    IN RDiv(hex_h, 2) + offset_y + row * hex_h

\* `if cx < mid_x { White } else { Black }` with mid_x = css_w * 0.5
InitialColor(cx, w) == IF 2 * cx < w THEN HexWhite ELSE HexBlack

\* The cells in push order: col outer, row inner, so cells[col*rows+row+1].
NewGrid(w, h, r) ==
    LET cols == GridCols(w, r)
        rows == GridRows(h, r)
    IN [cells |-> [k \in 1..(cols * rows) |->
                     LET col == (k - 1) \div rows
                         row == (k - 1) % rows
                         cx == CellCx(r, col)
                     IN [col |-> col, row |-> row, cx |-> cx,
                         cy |-> CellCy(r, col, row),
                         color |-> InitialColor(cx, w)]],
        cols |-> cols, rows |-> rows, r |-> r, hex_h |-> HexH(r)]

\* Option<usize>::None
NoIndex == -1

\* Faulty variant of CenterToIndex: the half-step offset of the odd columns is
\* forgotten.  C5 must fail on it.
CenterToIndexNoOffset(g, x, y) ==
    LET col == RoundAway(x - g.r, StepX(g.r))
    IN IF col < 0 \/ col >= g.cols THEN NoIndex
       ELSE LET row == RoundAway(y - RDiv(g.hex_h, 2), g.hex_h)
            IN IF row < 0 \/ row >= g.rows THEN NoIndex
               ELSE col * g.rows + row

\* Grid::center_to_index
CenterToIndex(g, x, y) ==
    LET step_x == StepX(g.r)
        col == RoundAway(x - g.r, step_x)
    IN IF col < 0 \/ col >= g.cols THEN NoIndex
       ELSE LET offset == IF col % 2 = 0 THEN 0 ELSE RDiv(g.hex_h, 2)
                row == RoundAway(y - RDiv(g.hex_h, 2) - offset, g.hex_h)
            IN IF row < 0 \/ row >= g.rows THEN NoIndex
               ELSE col * g.rows + row

\* ------------------------------------------------------------ Grid::flip_disc
RECURSIVE SumTo(_, _)
SumTo(f, n) == IF n = 0 THEN 0 ELSE f[n] + SumTo(f, n - 1)

\* Faulty variants of FlipHits: the bounding box instead of the circle (C3 must
\* fail on it), and no test of the cell's colour (C4 must fail on it).
FlipHitsBox(cell, x, y, radius, target) ==
    /\ Abs(cell.cx - x) <= radius
    /\ Abs(cell.cy - y) <= radius
    /\ ~(cell.color = target)
FlipHitsAnyColour(cell, x, y, radius, target) ==
    LET dx == cell.cx - x
        dy == cell.cy - y
    IN ~(dx * dx + dy * dy > radius * radius)

\* `if dx * dx + dy * dy > r2 { continue; } if cell.color == target { continue; }`
\* negated: the cell is recoloured by this call.
FlipHits(cell, x, y, radius, target) ==
    LET dx == cell.cx - x
        dy == cell.cy - y
    IN /\ ~(dx * dx + dy * dy > radius * radius)
       /\ ~(cell.color = target)

\* Faulty variant of WhiteAward: White scores on every recolouring.  The
\* amended C2 must fail on it.
WhiteAwardEveryFlip(old, target) == 1

\* The points one recoloured cell adds: `match (old, target)`.
WhiteAward(old, target) == IF old = HexBlack /\ target = HexWhite THEN 1 ELSE 0
BlackAward(old, target) == IF old = HexWhite /\ target = HexBlack THEN 1 ELSE 0

\* The unit vector from a recoloured cell to (x, y), <<0, 0, 0>> when the
\* distance is not above 1e-6; the third component is the `hits` increment.
HitNormal(cell, x, y) ==
    LET vx == x - cell.cx
        vy == y - cell.cy
        len == Sqrt(vx * vx + vy * vy)
    IN IF len > 0 THEN <<RDiv(vx * ONE, len), RDiv(vy * ONE, len), 1>>
                  ELSE <<0, 0, 0>>

\* Option<(f64, f64)>
NoNormal == [some |-> FALSE, nx |-> 0, ny |-> 0]
SomeNormal(nx, ny) == [some |-> TRUE, nx |-> nx, ny |-> ny]

\* `if hits > 0 { let len = ...; if len > 1e-6 { Some(..) } else { None } } else { None }`
BounceNormal(nx, ny, hits) ==
    IF hits > 0
    THEN LET len == Sqrt(nx * nx + ny * ny)
         IN IF len > 0 THEN SomeNormal(RDiv(nx * ONE, len), RDiv(ny * ONE, len))
                       ELSE NoNormal
    ELSE NoNormal

\* Grid::flip_disc: the loop visits every cell once and each iteration reads
\* and writes only its own cell, so the result is given cell by cell.
FlipDisc(g, x, y, radius, team) ==
    LET target == TargetColor(team)
        n == Len(g.cells)
        hit == [k \in 1..n |-> FlipHits(g.cells[k], x, y, radius, target)]
        hn == [k \in 1..n |-> IF hit[k] THEN HitNormal(g.cells[k], x, y)
                                        ELSE <<0, 0, 0>>]
        nx == SumTo([k \in 1..n |-> hn[k][1]], n)
        ny == SumTo([k \in 1..n |-> hn[k][2]], n)
        hits == SumTo([k \in 1..n |-> hn[k][3]], n)
    IN [grid |-> [g EXCEPT !.cells =
                     [k \in 1..n |-> IF hit[k] THEN [g.cells[k] EXCEPT !.color = target]
                                               ELSE g.cells[k]]],
        white_pts |-> SumTo([k \in 1..n |-> IF hit[k]
                               THEN WhiteAward(g.cells[k].color, target) ELSE 0], n),
        black_pts |-> SumTo([k \in 1..n |-> IF hit[k]
                               THEN BlackAward(g.cells[k].color, target) ELSE 0], n),
        normal |-> BounceNormal(nx, ny, hits)]

\* ------------------------------------------------------------ Ball
\* Ball::maintain_speed: `if mag > 1e-6 { scale = base_speed / mag; v *= scale }`
MaintainSpeed(b) ==
    LET mag == Sqrt(b.vx * b.vx + b.vy * b.vy)
    IN IF mag > 0
       THEN [b EXCEPT !.vx = RDiv(b.vx * b.base_speed, mag),
                      !.vy = RDiv(b.vy * b.base_speed, mag)]
       ELSE b

\* TEAM_BOOST = 1.12 in 1/100, MAX_BASE_SPEED = 520.0
TEAM_BOOST == 112
MAX_BASE_SPEED == 520 * VS

\* Faulty variant of Boosted: no ceiling.  C18 must fail on it.
BoostedNoCap(base_speed) == RDiv(base_speed * TEAM_BOOST, 100)

\* `(base_speed * TEAM_BOOST).min(MAX_BASE_SPEED)`
Boosted(base_speed) == Min(RDiv(base_speed * TEAM_BOOST, 100), MAX_BASE_SPEED)

\* ------------------------------------------------------------ angles
\* Angles in 1e-4 rad.  Cos and Sin are tabulated (in 1/ONE) on the angles the
\* model draws: the cone angles, the cone angles plus PI, and the nudge angles.
PI == 31416

\* Results of rand_range(-0.35 * PI, 0.35 * PI): all within [-10996, 10996).
ConeAngles == {-6535, 0, 9273}

CosTab == [a \in ConeAngles \cup {PI \div 2} |->
             CASE a = -6535 -> 794 [] a = 0 -> 1000 [] a = 9273 -> 600
               [] a = PI \div 2 -> 0]
SinTab == [a \in ConeAngles \cup {PI \div 2} |->
             CASE a = -6535 -> -608 [] a = 0 -> 0 [] a = 9273 -> 800
               [] a = PI \div 2 -> 1000]

\* f64::cos, f64::sin; cos(PI + a) = -cos(a), sin(PI + a) = -sin(a).
Cos(ang) == IF ang \in DOMAIN CosTab THEN CosTab[ang] ELSE -CosTab[ang - PI]
Sin(ang) == IF ang \in DOMAIN SinTab THEN SinTab[ang] ELSE -SinTab[ang - PI]

\* rand_range(min, max) = min + (max - min) * Math.random(), the random
\* number u in 1/ONE, 0 <= u < ONE.
RandRange(min, max, u) == min + RDiv((max - min) * u, ONE)

\* ------------------------------------------------------------ spawn
\* The most discs per team: `per_team.min(5)`.
MaxPerTeam == 5

\* One disc's three random numbers: u for x, u for y, and the cone angle.
SpawnDraws == {[ux |-> 0,   uy |-> 0,   ang |-> 9273],
               [ux |-> 540, uy |-> 40,  ang |-> -6535],
               [ux |-> 500, uy |-> 900, ang |-> 0]}

\* The outputs of Math.random() during one spawn, disc by disc in push order.
\* The model draws from the streams that repeat after two discs and start
\* with the first draw of SpawnDraws: a stream is its two draws.
FirstDraw == [ux |-> 0, uy |-> 0, ang |-> 9273]
DrawStreams == {<<FirstDraw, b>> : b \in SpawnDraws}
DrawOf(draws, k) == IF k % 2 = 1 THEN draws[1] ELSE draws[2]

\* `(self.grid.r * 1.8).clamp(6.0, 22.0)`, `(self.grid.r * 20.0).clamp(200.0, 480.0)`
BallRadius(g) == Clamp(RDiv(18 * g.r, 10), 6 * PX, 22 * PX)
SpawnSpeed(g) == Clamp(RDiv(20 * g.r * VS, PX), 200 * VS, 480 * VS)

SpawnWhite(g, w, h, d) ==
    LET r == BallRadius(g)
        speed == SpawnSpeed(g)
        ang == d.ang
    IN [x |-> RandRange(r + PX, RDiv(w, 4), d.ux),
        y |-> RandRange(r + PX, h - r - PX, d.uy),
        vx |-> RDiv(Cos(ang) * speed, ONE),
        vy |-> RDiv(Sin(ang) * speed, ONE),
        team |-> TeamWhite, radius |-> r, base_speed |-> speed,
        last_bounce_ts |-> -1]

SpawnBlack(g, w, h, d) ==
    LET r == BallRadius(g)
        speed == SpawnSpeed(g)
        ang == PI + d.ang
    IN [x |-> RandRange(RDiv(3 * w, 4), w - r - PX, d.ux),
        y |-> RandRange(r + PX, h - r - PX, d.uy),
        vx |-> RDiv(Cos(ang) * speed, ONE),
        vy |-> RDiv(Sin(ang) * speed, ONE),
        team |-> TeamBlack, radius |-> r, base_speed |-> speed,
        last_bounce_ts |-> -1]

\* App::spawn_balls_per_team: clear, then per_team White and per_team Black.
SpawnBallsPerTeam(g, w, h, per_team, draws) ==
    IF per_team = 0 THEN <<>>
    ELSE [k \in 1..(2 * per_team) |->
            IF k <= per_team THEN SpawnWhite(g, w, h, DrawOf(draws, k))
                             ELSE SpawnBlack(g, w, h, DrawOf(draws, k))]

\* Faulty variant of ClampPerTeam: no ceiling.  C9 must fail on it.
ClampPerTeamNone(n) == n

\* App::set_balls_per_team: `let n = per_team.min(5)`
ClampPerTeam(n) == Min(n, MaxPerTeam)

\* Faulty variant of ClampSpeed: no ceiling.  C7 must fail on it.
ClampSpeedNoCeiling(mul) == Max(mul, 0)

\* App::set_speed: `mul.clamp(0.0, 6.25)`
ClampSpeed(mul) == Clamp(mul, 0, 625)

\* ------------------------------------------------------------ tick, phase 1
\* `b.x += b.vx * dt * mul` with dt in ms and mul in 1/MUL.
Advance(p, v, dt, mul) == p + RDiv(v * dt * mul, (VS * 1000 * MUL) \div PX)

Integrate(b, dt, mul, w, h) ==
    LET x1 == Advance(b.x, b.vx, dt, mul)
        y1 == Advance(b.y, b.vy, dt, mul)
        hitL == x1 - b.radius <= 0
        hitR == ~hitL /\ x1 + b.radius >= w
        hitT == y1 - b.radius <= 0
        hitB == ~hitT /\ y1 + b.radius >= h
    IN [b EXCEPT !.x = IF hitL THEN b.radius ELSE IF hitR THEN w - b.radius ELSE x1,
                 !.vx = IF hitL THEN Abs(b.vx) ELSE IF hitR THEN -Abs(b.vx) ELSE b.vx,
                 !.y = IF hitT THEN b.radius ELSE IF hitB THEN h - b.radius ELSE y1,
                 !.vy = IF hitT THEN Abs(b.vy) ELSE IF hitB THEN -Abs(b.vy) ELSE b.vy]

\* ------------------------------------------------------------ collisions
\* `restitution = 0.98` in 1/100
RESTITUTION == 98

\* `dist2.sqrt()` for the collision normal: the root is taken of dist2 * s * s,
\* s the largest power of ten that keeps the product within 31 bits, so that
\* dx / dist keeps four digits for centres that are close together.
NormalScale(dist2) ==
    IF dist2 <= 2000 THEN 1000
    ELSE IF dist2 <= 200000 THEN 100
    ELSE IF dist2 <= 20000000 THEN 10
    ELSE 1

\* Faulty variant of ResolvePair: discs that are not approaching are skipped
\* before the positional correction.  C17 must fail on it.
ResolvePairApproaching(bs, i, j, ang) ==
    LET bi == bs[i]
        bj == bs[j]
        dx == bj.x - bi.x
        dy == bj.y - bi.y
        rsum == bi.radius + bj.radius
        dist2 == dx * dx + dy * dy
    IN IF dist2 > rsum * rsum THEN bs
       ELSE
       LET scale == NormalScale(dist2)
           dists == Sqrt(dist2 * scale * scale)
           dist0 == RDiv(dists, scale)
           coincide == dist2 = 0
           \* `dist = 1e-6`: below the resolution, so rsum - dist rounds to rsum and
           \* dx / dist, dy / dist are 0 / 1e-6 = 0 (dx and dy are not recomputed).
           nudge_x == IF coincide THEN RDiv(Cos(ang) * PX, 1000 * ONE) ELSE 0
           nudge_y == IF coincide THEN RDiv(Sin(ang) * PX, 1000 * ONE) ELSE 0
           nx == IF coincide THEN 0 ELSE RDiv(dx * ONE * scale, dists)
           ny == IF coincide THEN 0 ELSE RDiv(dy * ONE * scale, dists)
           penetration == rsum - dist0
           \* `penetration / 2.0 + 1e-4`
           corr == RDiv(5000 * penetration + PX, 10000)
           cx == RDiv(nx * corr, ONE)
           cy == RDiv(ny * corr, ONE)
           pi == [bi EXCEPT !.x = bi.x - nudge_x - cx, !.y = bi.y - nudge_y - cy]
           pj == [bj EXCEPT !.x = bj.x + cx, !.y = bj.y + cy]
           rvx == bj.vx - bi.vx
           rvy == bj.vy - bi.vy
           vn == RDiv(rvx * nx + rvy * ny, ONE)
       IN IF vn >= 0 THEN bs
          ELSE
          LET imp == RDiv(-(100 + RESTITUTION) * vn, 200)
              jx == RDiv(imp * nx, ONE)
              jy == RDiv(imp * ny, ONE)
              vi == MaintainSpeed([pi EXCEPT !.vx = pi.vx - jx, !.vy = pi.vy - jy])
              vj == MaintainSpeed([pj EXCEPT !.vx = pj.vx + jx, !.vy = pj.vy + jy])
          IN IF bi.team = bj.team
             THEN [bs EXCEPT
                     ![i] = MaintainSpeed([vi EXCEPT !.base_speed = Boosted(vi.base_speed)]),
                     ![j] = MaintainSpeed([vj EXCEPT !.base_speed = Boosted(vj.base_speed)])]
             ELSE [bs EXCEPT ![i] = vi, ![j] = vj]

\* The body of the pair loop of App::resolve_collisions for the pair (i, j),
\* i < j; ang is the angle drawn if the centres coincide.
ResolvePair(bs, i, j, ang) ==
    LET bi == bs[i]
        bj == bs[j]
        dx == bj.x - bi.x
        dy == bj.y - bi.y
        rsum == bi.radius + bj.radius
        dist2 == dx * dx + dy * dy
    IN IF dist2 > rsum * rsum THEN bs
       ELSE
       LET scale == NormalScale(dist2)
           dists == Sqrt(dist2 * scale * scale)
           dist0 == RDiv(dists, scale)
           coincide == dist2 = 0
           \* `dist = 1e-6`: below the resolution, so rsum - dist rounds to rsum and
           \* dx / dist, dy / dist are 0 / 1e-6 = 0 (dx and dy are not recomputed).
           nudge_x == IF coincide THEN RDiv(Cos(ang) * PX, 1000 * ONE) ELSE 0
           nudge_y == IF coincide THEN RDiv(Sin(ang) * PX, 1000 * ONE) ELSE 0
           nx == IF coincide THEN 0 ELSE RDiv(dx * ONE * scale, dists)
           ny == IF coincide THEN 0 ELSE RDiv(dy * ONE * scale, dists)
           penetration == rsum - dist0
           \* `penetration / 2.0 + 1e-4`
           corr == RDiv(5000 * penetration + PX, 10000)
           cx == RDiv(nx * corr, ONE)
           cy == RDiv(ny * corr, ONE)
           pi == [bi EXCEPT !.x = bi.x - nudge_x - cx, !.y = bi.y - nudge_y - cy]
           pj == [bj EXCEPT !.x = bj.x + cx, !.y = bj.y + cy]
           rvx == bj.vx - bi.vx
           rvy == bj.vy - bi.vy
           vn == RDiv(rvx * nx + rvy * ny, ONE)
       IN IF vn >= 0 THEN [bs EXCEPT ![i] = pi, ![j] = pj]
          ELSE
          LET imp == RDiv(-(100 + RESTITUTION) * vn, 200)
              jx == RDiv(imp * nx, ONE)
              jy == RDiv(imp * ny, ONE)
              vi == MaintainSpeed([pi EXCEPT !.vx = pi.vx - jx, !.vy = pi.vy - jy])
              vj == MaintainSpeed([pj EXCEPT !.vx = pj.vx + jx, !.vy = pj.vy + jy])
          IN IF bi.team = bj.team
             THEN [bs EXCEPT
                     ![i] = MaintainSpeed([vi EXCEPT !.base_speed = Boosted(vi.base_speed)]),
                     ![j] = MaintainSpeed([vj EXCEPT !.base_speed = Boosted(vj.base_speed)])]
             ELSE [bs EXCEPT ![i] = vi, ![j] = vj]

\* `for i in 0..n { for j in (i + 1)..n { ... } }`, each pair on the discs as
\* the earlier pairs left them.
RECURSIVE ResolveLoop(_, _, _, _)
ResolveLoop(bs, i, j, ang) ==
    IF i > Len(bs) THEN bs
    ELSE IF j > Len(bs) THEN ResolveLoop(bs, i + 1, i + 2, ang)
    ELSE ResolveLoop(ResolvePair(bs, i, j, ang), i, j + 1, ang)

\* App::resolve_collisions
ResolveCollisions(bs, ang) ==
    IF Len(bs) < 2 THEN bs ELSE ResolveLoop(bs, 1, 2, ang)

\* ------------------------------------------------------------ tick, phase 3
\* The debounce window of the territory bounce, in ms: `now - last_bounce_ts > 15.0`
BOUNCE_DEBOUNCE == 15

\* Faulty variant of ClaimOne: the debounce window is not tested.  C15 must
\* fail on it.
ClaimOneNoDebounce(st, i, now) ==
    LET b == st.balls[i]
        f == FlipDisc(st.grid, b.x, b.y, b.radius, b.team)
        dot == RDiv(b.vx * f.normal.nx + b.vy * f.normal.ny, ONE)
        bounce == f.normal.some /\ dot < 0
        reflected == [MaintainSpeed([b EXCEPT
                         !.vx = b.vx - RDiv(2 * dot * f.normal.nx, ONE),
                         !.vy = b.vy - RDiv(2 * dot * f.normal.ny, ONE)])
                      EXCEPT !.last_bounce_ts = now]
    IN [grid |-> f.grid,
        balls |-> IF bounce THEN [st.balls EXCEPT ![i] = reflected] ELSE st.balls,
        points_white |-> st.points_white + f.white_pts,
        points_black |-> st.points_black + f.black_pts]

\* The body of the claim loop for disc i, on the state st = [grid, balls,
\* points_white, points_black] the earlier discs left.
ClaimOne(st, i, now) ==
    LET b == st.balls[i]
        f == FlipDisc(st.grid, b.x, b.y, b.radius, b.team)
        dot == RDiv(b.vx * f.normal.nx + b.vy * f.normal.ny, ONE)
        bounce == /\ f.normal.some
                  /\ (b.last_bounce_ts < 0 \/ now - b.last_bounce_ts > BOUNCE_DEBOUNCE)
                  /\ dot < 0
        reflected == [MaintainSpeed([b EXCEPT
                         !.vx = b.vx - RDiv(2 * dot * f.normal.nx, ONE),
                         !.vy = b.vy - RDiv(2 * dot * f.normal.ny, ONE)])
                      EXCEPT !.last_bounce_ts = now]
    IN [grid |-> f.grid,
        balls |-> IF bounce THEN [st.balls EXCEPT ![i] = reflected] ELSE st.balls,
        points_white |-> st.points_white + f.white_pts,
        points_black |-> st.points_black + f.black_pts]

RECURSIVE ClaimLoop(_, _, _)
ClaimLoop(st, i, now) ==
    IF i > Len(st.balls) THEN st ELSE ClaimLoop(ClaimOne(st, i, now), i + 1, now)

\* ------------------------------------------------------------ bounds
\* Board sizes (css_w, css_h) given to init and resize, in pixels.
Boards == {<<32, 32>>, <<32, 16>>}
\* Arguments of set_balls_per_team and init (u32).
MaxRosterArg == 2
RosterArgs == (0..MaxRosterArg) \cup {MaxPerTeam + 1}
\* Arguments of set_speed and init, in 1/MUL: -1.0, 1.0, 10.0.
SpeedArgs == {-100, 100, 1000}
\* Milliseconds between two readings of the clock.
TimeSteps == {10, 20}
MaxClock == 20
\* Angles drawn by rand_range(0.0, PI * 2.0) for the nudge.
NudgeAngles == {0, PI \div 2}
\* Frame callbacks registered with the browser at one time.
MaxPending == 1
\* Calls of start, stop, set_speed, set_balls_per_team, reset_grid and resize
\* after init.
MaxCalls == 2

\* ------------------------------------------------------------ state
VARIABLES
    css_w, css_h,      \* App.css_w, App.css_h
    grid,              \* App.grid
    balls,             \* App.balls
    running,           \* App.running
    last_ts,           \* App.last_ts
    speed_mul,         \* App.speed_mul, in 1/MUL
    points_white,      \* App.points_white
    points_black,      \* App.points_black
    raf_handle,        \* App.raf_handle is Some
    raf_pending,       \* frame callbacks requested and not yet run
    clock,             \* performance.now(), the time base of the frame timestamps
    panicked,          \* a handler panicked: the wasm instance has trapped
    calls              \* calls of the control surface since init (bounded by MaxCalls)

vars == <<css_w, css_h, grid, balls, running, last_ts, speed_mul,
          points_white, points_black, raf_handle, raf_pending, clock, panicked, calls>>

\* One more call of the control surface, within the bound.
CallWithin(limit) == calls < limit /\ calls' = calls + 1
Call == CallWithin(MaxCalls)

\* init_app: App::new, set_speed(speed), set_balls_per_team(balls_per_team),
\* with its arguments and random draws taken from the given sets.
InitWith(boards, rosters, speeds, streams) ==
    \E board \in boards, n \in rosters, speed \in speeds, draws \in streams :
        LET w == board[1] * PX
            h == board[2] * PX
            g == NewGrid(w, h, GridRadius(w, h))
        IN /\ css_w = w
           /\ css_h = h
           /\ grid = g
           /\ balls = SpawnBallsPerTeam(g, w, h, ClampPerTeam(n), draws)
           /\ running = FALSE
           /\ last_ts = 0
           /\ speed_mul = ClampSpeed(speed)
           /\ points_white = 0
           /\ points_black = 0
           /\ raf_handle = FALSE
           /\ raf_pending = 0
           /\ clock = 0
           /\ panicked = FALSE
           /\ calls = 0

Init == InitWith(Boards, RosterArgs, SpeedArgs, DrawStreams)

\* App::tick(ts); ang is the nudge angle drawn in resolve_collisions.
Tick(ts, ang) ==
    LET dt == Clamp(ts - last_ts, 0, 50)
        moved == [k \in 1..Len(balls) |-> Integrate(balls[k], dt, speed_mul, css_w, css_h)]
        collided == ResolveCollisions(moved, ang)
        st == ClaimLoop([grid |-> grid, balls |-> collided,
                         points_white |-> points_white,
                         points_black |-> points_black], 1, ts)
    IN /\ last_ts' = ts
       /\ grid' = st.grid
       /\ balls' = st.balls
       /\ points_white' = st.points_white
       /\ points_black' = st.points_black
       /\ UNCHANGED <<css_w, css_h, running, speed_mul, raf_handle>>

\* Faulty variant of StartWith: no early return when already running.  C13
\* must fail on it.
StartAlways(maxp, limit, delays) ==
    /\ ~panicked
    /\ CallWithin(limit)
    /\ raf_pending < maxp
    /\ \E e \in delays :
         /\ clock' = clock + e
         /\ last_ts' = clock + e
    /\ running' = TRUE
    /\ raf_pending' = raf_pending + 1
    /\ raf_handle' = TRUE
    /\ UNCHANGED <<css_w, css_h, grid, balls, speed_mul,
                   points_white, points_black, panicked>>

\* App::start, with at most maxp frame callbacks registered at one time, as
\* one of at most limit calls, performance.now() reading a time e ms after
\* the last frame, e in delays.
StartWith(maxp, limit, delays) ==
    /\ ~panicked
    /\ CallWithin(limit)
    /\ IF running
       THEN UNCHANGED <<css_w, css_h, grid, balls, running, last_ts, speed_mul,
                        points_white, points_black, raf_handle, raf_pending,
                        clock, panicked>>
       ELSE /\ raf_pending < maxp
            /\ \E e \in delays :
                 /\ clock' = clock + e
                 /\ last_ts' = clock + e
            /\ running' = TRUE
            /\ raf_pending' = raf_pending + 1
            /\ raf_handle' = TRUE
            /\ UNCHANGED <<css_w, css_h, grid, balls, speed_mul,
                           points_white, points_black, panicked>>

Start == StartWith(MaxPending, MaxCalls, {0})

\* App::stop, as one of at most limit calls
StopWith(limit) ==
    /\ ~panicked
    /\ CallWithin(limit)
    /\ running' = FALSE
    /\ raf_handle' = FALSE
    /\ UNCHANGED <<css_w, css_h, grid, balls, last_ts, speed_mul,
                   points_white, points_black, raf_pending, clock, panicked>>

Stop == StopWith(MaxCalls)

\* Faulty variant of FrameWith: the closure ticks without testing app.running.
\* C14 must fail on it.
FrameAlwaysTicks(steps, maxclock) ==
    /\ ~panicked
    /\ raf_pending > 0
    /\ UNCHANGED calls
    /\ \E d \in steps, ang \in NudgeAngles :
        /\ clock + d <= maxclock
        /\ clock' = clock + d
        /\ Tick(clock + d, ang)
        /\ UNCHANGED <<raf_pending, panicked>>

\* The closure of App::start run by the browser with the frame's timestamp:
\* `if app.running { tick(ts); true } else { false }`, rescheduled if true.
\* The frame comes d ms after the last one, d in steps, up to the time maxclock.
FrameWith(steps, maxclock) ==
    /\ ~panicked
    /\ raf_pending > 0
    /\ UNCHANGED calls
    /\ \E d \in steps, ang \in NudgeAngles :
        /\ clock + d <= maxclock
        /\ clock' = clock + d
        /\ IF running
           THEN Tick(clock + d, ang) /\ UNCHANGED <<raf_pending, panicked>>
           ELSE /\ raf_pending' = raf_pending - 1
                /\ UNCHANGED <<css_w, css_h, grid, balls, running, last_ts, speed_mul,
                               points_white, points_black, raf_handle, panicked>>

FrameCallback == FrameWith(TimeSteps, MaxClock)

\* App::set_speed
SetSpeed ==
    /\ ~panicked
    /\ Call
    /\ \E mul \in SpeedArgs : speed_mul' = ClampSpeed(mul)
    /\ UNCHANGED <<css_w, css_h, grid, balls, running, last_ts,
                   points_white, points_black, raf_handle, raf_pending, clock, panicked>>

\* App::set_balls_per_team
SetBallsPerTeam ==
    /\ ~panicked
    /\ Call
    /\ \E n \in RosterArgs, draws \in DrawStreams :
        balls' = SpawnBallsPerTeam(grid, css_w, css_h, ClampPerTeam(n), draws)
    /\ UNCHANGED <<css_w, css_h, grid, running, last_ts, speed_mul,
                   points_white, points_black, raf_handle, raf_pending, clock, panicked>>

\* Faulty variant of ResetGrid: points_black is not zeroed.  C10 must fail on it.
ResetGridKeepsBlack ==
    /\ ~panicked
    /\ Call
    /\ grid' = NewGrid(css_w, css_h, GridRadius(css_w, css_h))
    /\ points_white' = 0
    /\ UNCHANGED <<css_w, css_h, balls, running, last_ts, speed_mul, points_black,
                   raf_handle, raf_pending, clock, panicked>>

\* Faulty variant of ResetGrid: the roster is cleared with the board.  C19
\* must fail on it.
ResetGridDropsRoster ==
    /\ ~panicked
    /\ Call
    /\ grid' = NewGrid(css_w, css_h, GridRadius(css_w, css_h))
    /\ points_white' = 0
    /\ points_black' = 0
    /\ balls' = <<>>
    /\ UNCHANGED <<css_w, css_h, running, last_ts, speed_mul,
                   raf_handle, raf_pending, clock, panicked>>

\* Faulty variant of ResetGrid: the totals are zeroed and the board is kept.
\* C21 must fail on it.
ResetGridKeepsBoard ==
    /\ ~panicked
    /\ Call
    /\ points_white' = 0
    /\ points_black' = 0
    /\ UNCHANGED <<css_w, css_h, grid, balls, running, last_ts, speed_mul,
                   raf_handle, raf_pending, clock, panicked>>

\* App::reset_grid
ResetGrid ==
    /\ ~panicked
    /\ Call
    /\ grid' = NewGrid(css_w, css_h, GridRadius(css_w, css_h))
    /\ points_white' = 0
    /\ points_black' = 0
    /\ UNCHANGED <<css_w, css_h, balls, running, last_ts, speed_mul,
                   raf_handle, raf_pending, clock, panicked>>

\* `b.x.clamp(b.radius, self.css_w - b.radius)`: f64::clamp asserts min <= max.
ClampPanics(b, w, h) == b.radius > w - b.radius \/ b.radius > h - b.radius

\* App::resize, to one of the given boards.  css_w, css_h and grid are
\* assigned before the loop over the discs; the discs share one radius, so a
\* failing clamp fails at the first disc, before any position is written.
ResizeTo(boards) ==
    /\ ~panicked
    /\ Call
    /\ \E board \in boards :
        LET w == board[1] * PX
            h == board[2] * PX
        IN IF \E k \in 1..Len(balls) : ClampPanics(balls[k], w, h)
           THEN /\ panicked' = TRUE
                /\ css_w' = w
                /\ css_h' = h
                /\ grid' = NewGrid(w, h, GridRadius(w, h))
                /\ UNCHANGED <<balls, running, last_ts, speed_mul,
                               points_white, points_black, raf_handle, raf_pending, clock>>
           ELSE /\ css_w' = w
                /\ css_h' = h
                /\ grid' = NewGrid(w, h, GridRadius(w, h))
                /\ balls' = [k \in 1..Len(balls) |->
                               [balls[k] EXCEPT
                                  !.x = Clamp(balls[k].x, balls[k].radius, w - balls[k].radius),
                                  !.y = Clamp(balls[k].y, balls[k].radius, h - balls[k].radius)]]
                /\ UNCHANGED <<running, last_ts, speed_mul, points_white, points_black,
                               raf_handle, raf_pending, clock, panicked>>

Resize == ResizeTo(Boards)

Next == Start \/ Stop \/ FrameCallback \/ SetSpeed \/ SetBallsPerTeam \/ ResetGrid \/ Resize

Spec == Init /\ [][Next]_vars

\* The same program when resize is never called.
NextNoResize == Start \/ Stop \/ FrameCallback \/ SetSpeed \/ SetBallsPerTeam \/ ResetGrid

SpecNoResize == Init /\ [][NextNoResize]_vars

\* The program with an empty roster on a wider range of boards: init with
\* balls_per_team = 0, then resize and reset_grid.
GridSides == {1, 16, 32, 160, 250}
GridBoards == GridSides \X GridSides

InitGrid ==
    \E board \in GridBoards, speed \in SpeedArgs :
        LET w == board[1] * PX
            h == board[2] * PX
        IN /\ css_w = w
           /\ css_h = h
           /\ grid = NewGrid(w, h, GridRadius(w, h))
           /\ balls = SpawnBallsPerTeam(grid, w, h, ClampPerTeam(0), <<FirstDraw, FirstDraw>>)
           /\ running = FALSE
           /\ last_ts = 0
           /\ speed_mul = ClampSpeed(speed)
           /\ points_white = 0
           /\ points_black = 0
           /\ raf_handle = FALSE
           /\ raf_pending = 0
           /\ clock = 0
           /\ panicked = FALSE
           /\ calls = 0

ResizeGrid == ResizeTo(GridBoards)

NextGrid == ResizeGrid \/ ResetGrid

SpecGrid == InitGrid /\ [][NextGrid]_vars

\* The program on boards that include degenerate ones: narrower than a disc's
\* diameter (12 px at the least radius), and of dimension zero.
DegenerateBoards == Boards \cup {<<8, 32>>, <<0, 0>>}

InitDegenerate == InitWith(DegenerateBoards, RosterArgs, SpeedArgs, DrawStreams)

ResizeDegenerate == ResizeTo(DegenerateBoards)

NextDegenerate ==
    Start \/ Stop \/ FrameCallback \/ SetSpeed \/ SetBallsPerTeam \/ ResetGrid \/ ResizeDegenerate

SpecDegenerate == InitDegenerate /\ [][NextDegenerate]_vars

\* The frame loop alone: init, then start, stop and the frame callbacks, with
\* room for a second registered callback and for time between a frame and a
\* call of start.
MaxLoops == 2
MaxFrameCalls == 4
MaxFrameClock == 30
StartDelays == {0, 5}
FrameSteps == {10}

InitFrames == InitWith(Boards, {2}, {100}, DrawStreams)

StartFrames == StartWith(MaxLoops, MaxFrameCalls, StartDelays)

StopFrames == StopWith(MaxFrameCalls)

FrameFrames == FrameWith(FrameSteps, MaxFrameClock)

NextFrames == StartFrames \/ StopFrames \/ FrameFrames

SpecFrames == InitFrames /\ [][NextFrames]_vars

\* Play without interruption: init, one start, then frames 10, 20 or 60 ms
\* apart (the last beyond the 50 ms cap of dt), on small boards where discs
\* meet within a few frames.
PlayBoards == {<<16, 16>>, <<32, 16>>}
PlayRosters == {1, MaxPerTeam}
PlaySpeeds == {100, 625}
PlaySteps == {10, 20, 60}
MaxPlayClock == 60
MaxPlayCalls == 1

InitPlay == InitWith(PlayBoards, PlayRosters, PlaySpeeds, DrawStreams)

StartPlay == StartWith(MaxPending, MaxPlayCalls, {0})

FramePlay == FrameWith(PlaySteps, MaxPlayClock)

NextPlay == StartPlay \/ FramePlay

SpecPlay == InitPlay /\ [][NextPlay]_vars

\* ============================================================ claims
InWalls(b) == /\ b.radius <= b.x /\ b.x <= css_w - b.radius
              /\ b.radius <= b.y /\ b.y <= css_h - b.radius

\* C1 (as claimed): after init and after every tick, set_roster_size and
\* resize, every disc lies within [radius, dimension - radius] on both axes.
C1_WallContainment == ~panicked => \A k \in 1..Len(balls) : InWalls(balls[k])

\* C2 (as claimed): points_white + points_black never exceeds the number of
\* cells of the grid (no resize since the last reset).
C2_TotalWithinCells == points_white + points_black <= Len(grid.cells)

\* The arguments flip_disc is probed with in a state: the centres of the
\* discs and of the board, either team, the radii of the discs' range.
Probes == {<<balls[k].x, balls[k].y>> : k \in 1..Len(balls)}
              \cup {<<css_w \div 2, css_h \div 2>>}
ProbeRadii == {6 * PX, 22 * PX}

\* The colour a team paints, and the cells a call recolours, stated on the
\* grid before the call.
ColourOf(team) == IF team = TeamWhite THEN HexWhite ELSE HexBlack
Within(cell, x, y, radius) ==
    (cell.cx - x) * (cell.cx - x) + (cell.cy - y) * (cell.cy - y) <= radius * radius
Recoloured(g, x, y, radius, team) ==
    {k \in 1..Len(g.cells) : /\ Within(g.cells[k], x, y, radius)
                             /\ g.cells[k].color # ColourOf(team)}

\* C2 (amended): one flip_disc call awards, to both teams together, exactly
\* one point per cell it recolours, hence at most the number of cells.
C2_CallWithinCells ==
    \A p \in Probes, radius \in ProbeRadii, team \in Team :
        LET x == p[1]
            y == p[2]
            f == FlipDisc(grid, x, y, radius, team)
            changed == {k \in 1..Len(grid.cells) : f.grid.cells[k] # grid.cells[k]}
        IN /\ f.white_pts + f.black_pts = Cardinality(changed)
           /\ f.white_pts + f.black_pts <= Len(grid.cells)

\* C2 witness: the running total has passed the number of cells, and a further
\* call would recolour cells of either territory.
C2_Witness ==
    /\ points_white + points_black > Len(grid.cells)
    /\ \E p \in Probes :
         /\ FlipDisc(grid, p[1], p[2], 6 * PX, TeamWhite).white_pts > 0
         /\ FlipDisc(grid, p[1], p[2], 6 * PX, TeamBlack).black_pts > 0

\* C3: a flip_disc call awards the acting team one point per recoloured cell
\* and the other team nothing; the recoloured cells are those within the
\* radius that had the other colour, they end in the team's colour, and every
\* other cell is unchanged.
C3_FlipAwardsActingTeam ==
    \A p \in Probes, radius \in ProbeRadii, team \in Team :
        LET x == p[1]
            y == p[2]
            f == FlipDisc(grid, x, y, radius, team)
            rec == Recoloured(grid, x, y, radius, team)
            own == IF team = TeamWhite THEN f.white_pts ELSE f.black_pts
            other == IF team = TeamWhite THEN f.black_pts ELSE f.white_pts
        IN /\ own = Cardinality(rec)
           /\ other = 0
           /\ Len(f.grid.cells) = Len(grid.cells)
           /\ \A k \in 1..Len(grid.cells) :
                IF k \in rec
                THEN f.grid.cells[k] = [grid.cells[k] EXCEPT !.color = ColourOf(team)]
                ELSE f.grid.cells[k] = grid.cells[k]

\* C3 witness: a tick has awarded points and a probe call recolours cells of
\* both colours' territories.
C3_Witness ==
    /\ points_white > 0 /\ points_black > 0
    /\ \E p \in Probes :
         /\ Recoloured(grid, p[1], p[2], 6 * PX, TeamWhite) # {}
         /\ Recoloured(grid, p[1], p[2], 6 * PX, TeamBlack) # {}

\* C4: a second flip_disc call with the same arguments returns (0, 0, None)
\* and leaves the colours as the first call left them.
C4_FlipIdempotent ==
    \A p \in Probes, radius \in ProbeRadii, team \in Team :
        LET first == FlipDisc(grid, p[1], p[2], radius, team)
            second == FlipDisc(first.grid, p[1], p[2], radius, team)
        IN /\ second.white_pts = 0
           /\ second.black_pts = 0
           /\ second.normal = NoNormal
           /\ second.grid = first.grid

\* C4 witness: on a board the discs have repainted, a first call that
\* recolours cells and returns a normal.
C4_Witness ==
    /\ points_white + points_black > 0
    /\ \E p \in Probes, team \in Team :
         LET first == FlipDisc(grid, p[1], p[2], 6 * PX, team)
         IN first.normal.some /\ first.white_pts + first.black_pts > 1

\* C5: the grid holds cols * rows cells, cols >= 1, rows >= 1; the cell at
\* index col * rows + row has that (col, row), and locating its centre gives
\* that index back; distinct (col, row) have distinct indices.
C5_GridBijection ==
    /\ grid.cols >= 1
    /\ grid.rows >= 1
    /\ Len(grid.cells) = grid.cols * grid.rows
    /\ \A col \in 0..(grid.cols - 1), row \in 0..(grid.rows - 1) :
         LET cell == grid.cells[col * grid.rows + row + 1]
         IN /\ cell.col = col
            /\ cell.row = row
            /\ CenterToIndex(grid, cell.cx, cell.cy) = col * grid.rows + row
    /\ \A k \in 1..Len(grid.cells) :
         /\ grid.cells[k].col \in 0..(grid.cols - 1)
         /\ grid.cells[k].row \in 0..(grid.rows - 1)
         /\ grid.cells[k].col * grid.rows + grid.cells[k].row + 1 = k

\* C5 witness: a grid with several columns and rows, rebuilt by resize.
C5_Witness == grid.cols > 2 /\ grid.rows > 2 /\ calls > 0 /\ css_w # css_h

\* A disc's speed, and its equality with base_speed within the tolerance of
\* the fixed-point velocity components (1 %).
Speed(b) == Sqrt(b.vx * b.vx + b.vy * b.vy)
AtBaseSpeed(b) == 100 * Abs(Speed(b) - b.base_speed) <= b.base_speed

\* C6 (as claimed): at the end of every tick every disc's velocity magnitude
\* equals its base_speed.
C6_SpeedConserved == \A k \in 1..Len(balls) : AtBaseSpeed(balls[k])

C8_FrozenAtZero ==
    [][(speed_mul = 0 /\ running /\ FrameCallback) =>
          \A k \in 1..Len(balls) : /\ balls'[k].x = balls[k].x
                                   /\ balls'[k].y = balls[k].y]_vars

\* C9: set_roster_size(n) leaves min(n, 5) White discs followed by min(n, 5)
\* Black discs, each with last_bounce_ts = -1, speed base_speed, White with
\* vx > 0 and Black with vx < 0; grid and point totals are unchanged.
C9_RosterRebuilt ==
    [][SetBallsPerTeam =>
          /\ \E n \in RosterArgs :
               LET m == IF n < 5 THEN n ELSE 5
               IN /\ Len(balls') = 2 * m
                  /\ \A k \in 1..Len(balls') :
                       /\ balls'[k].team = IF k <= m THEN TeamWhite ELSE TeamBlack
                       /\ balls'[k].last_bounce_ts = -1
                       /\ AtBaseSpeed(balls'[k])
                       /\ balls'[k].base_speed > 0
                       /\ IF k <= m THEN balls'[k].vx > 0 ELSE balls'[k].vx < 0
          /\ Len(balls') <= 10
          /\ grid' = grid
          /\ points_white' = points_white
          /\ points_black' = points_black]_vars

\* C9 witness: after play, a roster of 5 + 5 freshly spawned discs.
C9_Witness ==
    /\ calls > 0 /\ clock > 0 /\ points_white + points_black > 0
    /\ \E draws \in DrawStreams :
         balls = SpawnBallsPerTeam(grid, css_w, css_h, 5, draws)

\* C10: reset_board recolours every cell to the half-split (White iff its
\* centre x < board_width / 2), zeroes both totals, and leaves the roster,
\* the running flag and the multiplier unchanged.
C10_ResetBoard ==
    [][ResetGrid =>
          /\ Len(grid'.cells) = Len(grid.cells)
          /\ \A k \in 1..Len(grid'.cells) :
               /\ grid'.cells[k].color =
                    IF 2 * grid'.cells[k].cx < css_w THEN HexWhite ELSE HexBlack
               /\ grid'.cells[k].cx = grid.cells[k].cx
               /\ grid'.cells[k].cy = grid.cells[k].cy
          /\ points_white' = 0
          /\ points_black' = 0
          /\ balls' = balls
          /\ running' = running
          /\ speed_mul' = speed_mul]_vars

\* C10 witness: a reset after play: totals 0 on a half-split board while a
\* disc has bounced off territory.
C10_Witness ==
    /\ calls > 1 /\ points_white = 0 /\ points_black = 0
    /\ \E k \in 1..Len(balls) : balls[k].last_bounce_ts >= 0
    /\ \A k \in 1..Len(grid.cells) :
         grid.cells[k].color = IF 2 * grid.cells[k].cx < css_w THEN HexWhite ELSE HexBlack

\* C11 (as claimed): resize, from any reachable state and for any dimensions,
\* rebuilds the grid for the new board with the half-split colours, leaves
\* every disc within [radius, dimension - radius] on both axes, and changes no
\* disc's velocity, base_speed, team or radius, nor the roster size.
C11_ResizeRebuilds ==
    [][ResizeDegenerate =>
          /\ ~panicked'
          /\ Len(grid'.cells) = grid'.cols * grid'.rows
          /\ \A k \in 1..Len(grid'.cells) :
               grid'.cells[k].color =
                  IF 2 * grid'.cells[k].cx < css_w' THEN HexWhite ELSE HexBlack
          /\ Len(balls') = Len(balls)
          /\ \A k \in 1..Len(balls) :
               /\ balls'[k].radius <= balls'[k].x
               /\ balls'[k].x <= css_w' - balls'[k].radius
               /\ balls'[k].radius <= balls'[k].y
               /\ balls'[k].y <= css_h' - balls'[k].radius
               /\ balls'[k].vx = balls[k].vx
               /\ balls'[k].vy = balls[k].vy
               /\ balls'[k].base_speed = balls[k].base_speed
               /\ balls'[k].team = balls[k].team
               /\ balls'[k].radius = balls[k].radius]_vars

\* C12 (as claimed): after init no sequence of tick, set_roster_size,
\* set_time_scale, reset_board and resize calls reaches a panic, degenerate
\* boards included.
C12_Infallible == ~panicked

\* The state a call of start or stop may not touch when it is a no-op.
AllButCalls == <<css_w, css_h, grid, balls, running, last_ts, speed_mul,
                 points_white, points_black, raf_handle, raf_pending, clock, panicked>>

\* C13: start on a running simulation changes nothing (running, last_ts and
\* the registered callbacks included), stop on a stopped one changes nothing,
\* and neither ever changes the grid, the discs or the point totals.
C13_StartStopIdempotent ==
    [][/\ (StartFrames /\ running) => UNCHANGED AllButCalls
       /\ (StopFrames /\ ~running) => UNCHANGED AllButCalls
       /\ (StartFrames \/ StopFrames) =>
             UNCHANGED <<grid, balls, points_white, points_black>>]_vars

\* C13 witness: two calls after init with the simulation running and points
\* scored: start on the running simulation after ticks, or stop on the
\* stopped one before the start.
C13_Witness ==
    /\ calls = 2 /\ running /\ raf_pending = 1
    /\ points_white + points_black > 0

\* C14: stop leaves running false; a frame callback that fires while running
\* is false changes no disc, cell, point total or last_ts and is not
\* rescheduled; running becomes true again only by start.
C14_StopBeforeNextFrame ==
    [][/\ StopFrames => ~running'
       /\ (FrameFrames /\ ~running) =>
             /\ UNCHANGED <<balls, grid, points_white, points_black, last_ts, running>>
             /\ raf_pending' = raf_pending - 1
       /\ (~running /\ running') => StartFrames]_vars

\* C14 witness: after play and a stop, the callback scheduled before the stop
\* has fired and is gone.
C14_Witness ==
    /\ ~running /\ raf_pending = 0 /\ clock > last_ts
    /\ points_white + points_black > 0

\* C20 (as claimed): at most one self-rescheduling frame callback is live
\* while the simulation runs.
C20_SingleFrameLoop == running => raf_pending <= 1

\* The state of the tick at time now when its claim loop starts: after
\* integration and the collisions.
BeforeClaims(now, ang) ==
    LET dt == Clamp(now - last_ts, 0, 50)
        moved == [k \in 1..Len(balls) |->
                     Integrate(balls[k], dt, speed_mul, css_w, css_h)]
    IN [grid |-> grid, balls |-> ResolveCollisions(moved, ang),
        points_white |-> points_white, points_black |-> points_black]

\* The state in which the claim loop reaches disc n: st after the claims of
\* the discs i .. n - 1.
RECURSIVE ClaimedBefore(_, _, _, _)
ClaimedBefore(st, i, n, now) ==
    IF i > Len(st.balls) \/ i >= n THEN st
    ELSE ClaimedBefore(ClaimOne(st, i, now), i + 1, n, now)

\* The debounce test of the claim, on a disc b at the time now.
OutsideWindow(b, now) == b.last_bounce_ts < 0 \/ now - b.last_bounce_ts > 15

\* The claim of disc i on the state pre obeys the debounce rule.
ClaimDebounced(pre, i, now) ==
    \A post \in {ClaimOne(pre, i, now)},
       f \in {FlipDisc(pre.grid, pre.balls[i].x, pre.balls[i].y,
                       pre.balls[i].radius, pre.balls[i].team)} :
        LET b == pre.balls[i]
            a == post.balls[i]
        IN /\ a # b =>
                /\ f.normal.some
                /\ b.vx * f.normal.nx + b.vy * f.normal.ny < 0
                /\ OutsideWindow(b, now)
                /\ a.last_bounce_ts = now
                /\ AtBaseSpeed(a)
                /\ a = [b EXCEPT !.vx = a.vx, !.vy = a.vy, !.last_bounce_ts = now]
           /\ post.grid = f.grid
           /\ post.points_white = pre.points_white + f.white_pts
           /\ post.points_black = pre.points_black + f.black_pts
           /\ \A k \in 1..Len(pre.balls) : k # i => post.balls[k] = pre.balls[k]

\* The claim of every disc in the tick at time now obeys the debounce rule.
ClaimsDebounced(now, ang) ==
    \A mid \in {BeforeClaims(now, ang)} :
      \A i \in 1..Len(balls) :
        \A pre \in {ClaimedBefore(mid, 1, i, now)} : ClaimDebounced(pre, i, now)

\* C15: in a tick, the claim of disc i changes its velocity or last_bounce_ts
\* only if flip_disc returned a normal, the velocity has a negative component
\* along it, and the disc never bounced or bounced more than 15 ms before;
\* then last_bounce_ts is the tick's timestamp and the speed is base_speed.
\* Bounce or not, the grid and the totals are those of the flip_disc call, and
\* no other disc is touched.  Over the whole tick a changed last_bounce_ts is
\* the timestamp, more than 15 ms after the previous bounce.
C15_BounceDebounced ==
    /\ [](running => \A d \in PlaySteps, ang \in NudgeAngles :
                        ClaimsDebounced(clock + d, ang))
    /\ [][(FramePlay /\ running) =>
             \A k \in 1..Len(balls) :
                balls'[k].last_bounce_ts # balls[k].last_bounce_ts =>
                   /\ balls'[k].last_bounce_ts = last_ts'
                   /\ OutsideWindow(balls[k], last_ts')]_vars

\* C15 witness: a running state whose next frame, 10 ms later, holds a disc
\* that bounced less than 15 ms before, recolours cells and gets a normal
\* against its velocity: the bounce is suppressed and the points are awarded.
C15_Witness ==
    /\ running /\ raf_pending > 0 /\ clock + 10 <= MaxPlayClock
    /\ \E mid \in {BeforeClaims(clock + 10, 0)} :
         \E i \in 1..Len(balls) :
           \E pre \in {ClaimedBefore(mid, 1, i, clock + 10)} :
             \E f \in {FlipDisc(pre.grid, pre.balls[i].x, pre.balls[i].y,
                                 pre.balls[i].radius, pre.balls[i].team)} :
                /\ f.normal.some
                /\ pre.balls[i].vx * f.normal.nx + pre.balls[i].vy * f.normal.ny < 0
                /\ pre.balls[i].last_bounce_ts >= 0
                /\ ~OutsideWindow(pre.balls[i], clock + 10)
                /\ f.white_pts + f.black_pts > 0
                /\ ClaimOne(pre, i, clock + 10).balls[i] = pre.balls[i]

\* The squared distance of the centres of two discs, and the square of the
\* sum of their radii.
Dist2(b1, b2) == (b2.x - b1.x) * (b2.x - b1.x) + (b2.y - b1.y) * (b2.y - b1.y)
RSum2(b1, b2) == (b1.radius + b2.radius) * (b1.radius + b2.radius)

\* C16 (as claimed): resolving a pair of discs with exactly equal centres
\* pushes them apart along a unit normal as any other contacting pair: they
\* end at least the sum of their radii apart.
C16_CoincidentSeparated ==
    \A i, j \in 1..Len(balls), ang \in NudgeAngles :
        (i < j /\ balls[i].x = balls[j].x /\ balls[i].y = balls[j].y) =>
            \A r \in {ResolvePair(balls, i, j, ang)} : Dist2(r[i], r[j]) >= RSum2(r[i], r[j])

\* Two discs of the roster in contact with distinct centres; their relative
\* velocity along the line of centres (its sign is that of vn); and centres
\* at least the sum of the radii apart, within the resolution 1/ONE of the
\* unit normal.
InContact(i, j) ==
    /\ i < j
    /\ Dist2(balls[i], balls[j]) > 0
    /\ Dist2(balls[i], balls[j]) <= RSum2(balls[i], balls[j])
Closing(i, j) ==
    (balls[j].vx - balls[i].vx) * (balls[j].x - balls[i].x)
       + (balls[j].vy - balls[i].vy) * (balls[j].y - balls[i].y)
Apart(b1, b2) ==
    ONE * (b1.radius + b2.radius - Sqrt(Dist2(b1, b2))) <= b1.radius + b2.radius

RECURSIVE BoostedTimes(_, _)
BoostedTimes(base_speed, n) ==
    IF n = 0 THEN base_speed ELSE BoostedTimes(Boosted(base_speed), n - 1)

\* Resolving the pair (i, j) boosts both discs once if they are of one team
\* and leaves base_speed alone otherwise.
PairBoosts(i, j, ang) ==
    \A r \in {ResolvePair(balls, i, j, ang)} :
        \A k \in {i, j} :
            /\ r[k].base_speed \in {balls[k].base_speed, Boosted(balls[k].base_speed)}
            /\ r[k].base_speed # balls[k].base_speed => balls[i].team = balls[j].team

\* C18: base_speed is at most 520 in every state; in play it never decreases
\* and changes only in a tick, in the collision phase, for a disc with a
\* teammate boosted alongside it, to min(base_speed * 1.12, 520) taken once
\* per pair; pairs of opposing teams, wall bounces and territory bounces
\* leave it unchanged.
C18_BaseSpeedCeiling ==
    /\ [](\A k \in 1..Len(balls) : balls[k].base_speed <= MAX_BASE_SPEED)
    /\ [](\A i, j \in 1..Len(balls), ang \in NudgeAngles :
             i < j /\ Dist2(balls[i], balls[j]) <= RSum2(balls[i], balls[j])
                => PairBoosts(i, j, ang))
    /\ [](\A k \in 1..Len(balls), d \in PlaySteps :
             Integrate(balls[k], d, speed_mul, css_w, css_h).base_speed
                = balls[k].base_speed)
    /\ [][/\ Len(balls') = Len(balls)
          /\ \A k \in 1..Len(balls) :
               /\ balls'[k].base_speed >= balls[k].base_speed
               /\ balls'[k].base_speed # balls[k].base_speed =>
                    /\ running /\ last_ts' = clock'
                    /\ \E n \in 1..(Len(balls) - 1) :
                         balls'[k].base_speed = BoostedTimes(balls[k].base_speed, n)
                    /\ \E j \in 1..Len(balls) :
                         /\ j # k /\ balls[j].team = balls[k].team
                         /\ \/ balls'[j].base_speed # balls[j].base_speed
                            \/ balls[j].base_speed = MAX_BASE_SPEED
          /\ (running /\ clock' # clock) =>
                \E ang \in NudgeAngles :
                    \A mid \in {BeforeClaims(clock', ang)} :
                        \A k \in 1..Len(balls) :
                            balls'[k].base_speed = mid.balls[k].base_speed]_vars

\* C18 witness: after play, one disc at the ceiling and another boosted but
\* below it.
C18_Witness ==
    /\ clock > 0
    /\ \E k \in 1..Len(balls) : balls[k].base_speed = MAX_BASE_SPEED
    /\ \E k \in 1..Len(balls) :
         /\ balls[k].base_speed < MAX_BASE_SPEED
         /\ balls[k].base_speed > 280 * VS

\* The membership of a roster: the team and radius of each disc, in order.
Roster(bs) == [k \in 1..Len(bs) |-> <<bs[k].team, bs[k].radius>>]

\* A disc as spawn_balls_per_team makes it.
Fresh(b) == b.last_bounce_ts = -1 /\ b.base_speed = SpawnSpeed(grid) /\ AtBaseSpeed(b)

\* C19: the number of discs, their order, and each disc's team and radius
\* change only in set_balls_per_team, which makes every disc anew; start,
\* stop, a frame, set_speed, reset_grid and resize keep them.
C19_RosterStable ==
    [][/\ Roster(balls') # Roster(balls) => SetBallsPerTeam
       /\ (Start \/ Stop \/ FrameCallback \/ SetSpeed \/ ResetGrid \/ Resize)
             => Roster(balls') = Roster(balls)
       /\ SetBallsPerTeam => \A k \in 1..Len(balls') : Fresh(balls'[k])]_vars

\* C19 witness: a roster that has played (a disc has bounced off territory)
\* and was then stopped, after two calls of the control surface.
C19_Witness ==
    /\ clock > 0 /\ calls = MaxCalls /\ ~running /\ ~panicked
    /\ Len(balls) = 2 * MaxRosterArg
    /\ \E k \in 1..Len(balls) : balls[k].last_bounce_ts >= 0

\* The number of White cells of a grid.
WhiteCells(g) == Cardinality({k \in 1..Len(g.cells) : g.cells[k].color = HexWhite})

\* C21: when resize is never called, points_white - points_black is the
\* number of White cells less the number of White cells of the freshly built
\* grid, in every state; and neither total decreases except in reset_grid,
\* which sets it to 0.
C21_ScoreMatchesTerritory ==
    /\ [](points_white - points_black
            = WhiteCells(grid)
                - WhiteCells(NewGrid(css_w, css_h, GridRadius(css_w, css_h))))
    /\ [][/\ points_white' < points_white => ResetGrid /\ points_white' = 0
          /\ points_black' < points_black => ResetGrid /\ points_black' = 0]_vars

\* C21 witness: both teams have scored, to different totals, and both
\* colours are on the board.
C21_Witness ==
    /\ points_black > 0
    /\ points_white > points_black
    /\ WhiteCells(grid) \in 1..(Len(grid.cells) - 1)

====
